---- MODULE Spec2Model ----
(***************************************************************************)
(* Model of app/config.go: the configuration wrapper (Config, UpdateConfig,*)
(* SaveConfig, ReloadConfig), the cluster-wide secrets                     *)
(* (ensurePostActionCookieSecret, ensureAsymmetricSigningKey), the client  *)
(* configuration snapshot (regenerateClientConfig), the stored dates       *)
(* (ensureInstallationDate, ensureFirstServerRunTimestamp) and             *)
(* HandleMessageExportConfig.                                              *)
(*                                                                         *)
(* Every goroutine is a thread of `th`; a thread runs one call at a time   *)
(* and each step of a call is one access to state shared with other        *)
(* goroutines (the system store, the config store, the atomic values of    *)
(* Channels).                                                              *)
(***************************************************************************)
EXTENDS Integers, Sequences, FiniteSets, TLC

\* ------------------------------------------------------------------ bounds
NumThreads == 2        \* goroutines (one per node in SpecSecret)
MaxSecret == 2         \* distinct values the random generator may draw
MaxTime == 3           \* largest clock reading / timestamp of SpecExport
MaxCalls == 2          \* calls made in one run, over all goroutines

Threads == 1..NumThreads
Nodes == 1..NumThreads
SecretValues == 1..MaxSecret

\* A Go pointer: nil, or the address of one value.
Nil == <<>>
Some(v) == <<v>>
Deref(p) == p[1]

\* ------------------------------------------------------- the system store
\* model.System records are (Name, Value) with Value a JSON text.  A JSON
\* text is modelled by its parse: an object with its members, the literal
\* null, or text that is no JSON at all.
SystemPostActionCookieSecretKey == "PostActionCookieSecret"
SystemAsymmetricSigningKeyKey == "AsymmetricSigningKey"
SystemNames == {SystemPostActionCookieSecretKey, SystemAsymmetricSigningKeyKey}

JSONNull == [json |-> "null"]
JSONGarbage == [json |-> "garbage"]
JSONObject(members) == [json |-> "object", members |-> members]

\* json.Marshal(&model.SystemPostActionCookieSecret{Secret: s})
MarshalSecret(newSecret) == JSONObject([key |-> newSecret.Secret])
\* json.Unmarshal(value, &secret) for secret *model.SystemPostActionCookieSecret:
\* null leaves the pointer nil without an error.
UnmarshalSecret(value) ==
    IF value.json = "garbage" THEN [err |-> TRUE, ptr |-> Nil]
    ELSE IF value.json = "null" THEN [err |-> FALSE, ptr |-> Nil]
    ELSE [err |-> FALSE, ptr |-> Some([Secret |-> value.members.key])]

\* json.Marshal(&model.SystemAsymmetricSigningKey{ECDSAKey: ...})
MarshalKey(newKey) ==
    JSONObject([ecdsa_key |-> [curve |-> newKey.ECDSAKey.Curve,
                               x |-> newKey.ECDSAKey.X,
                               y |-> newKey.ECDSAKey.Y,
                               d |-> newKey.ECDSAKey.D]])
UnmarshalKey(value) ==
    IF value.json = "garbage" THEN [err |-> TRUE, ptr |-> Nil]
    ELSE IF value.json = "null" THEN [err |-> FALSE, ptr |-> Nil]
    ELSE [err |-> FALSE,
          ptr |-> Some([ECDSAKey |-> [Curve |-> value.members.ecdsa_key.curve,
                                      X |-> value.members.ecdsa_key.x,
                                      Y |-> value.members.ecdsa_key.y,
                                      D |-> value.members.ecdsa_key.d]])]

\* ecdsa.GenerateKey(elliptic.P256(), rand.Reader): the private scalar d
\* determines the public point.
GenerateKey(d) == [X |-> 2 * d, Y |-> 2 * d + 1, D |-> d]

NoRecord == Nil

\* Store.System().GetByName(name): the record, or an error when there is none
\* or when the store cannot be reached (up = FALSE).
GetByName(sys, name, up) ==
    IF up /\ sys[name] # NoRecord
    THEN [err |-> FALSE, value |-> Deref(sys[name])]
    ELSE [err |-> TRUE, value |-> JSONNull]

\* Store.System().Save(system): insert; fails when a record of that name
\* exists (or the store cannot be reached).
SystemSave(sys, name, value, up) ==
    IF up /\ sys[name] = NoRecord
    THEN [err |-> FALSE, sys |-> [sys EXCEPT ![name] = Some(value)]]
    ELSE [err |-> TRUE, sys |-> sys]

\* ------------------------------------------------ configuration documents
\* A *model.Config is modelled by the settings the code of config.go reads:
\* MetricsSettings.Enable, the custom-terms-of-service switch (a client
\* visible setting) and ServiceSettings.SiteURL, which validation may reject.
Fields == {"MetricsEnable", "EnableCustomTermsOfService", "SiteURL"}
Docs ==
    [MetricsEnable : BOOLEAN, EnableCustomTermsOfService : BOOLEAN, SiteURL : {"ok", "bad"}]

\* model.Config.IsValid, as far as the model's settings go.
IsValid(cfg) == cfg.SiteURL # "bad"

\* The environment of a node: per setting, nil or the overriding value.
NoEnvironment == [f \in Fields |-> Nil]
Environments ==
    {NoEnvironment, [NoEnvironment EXCEPT !["EnableCustomTermsOfService"] = Some(TRUE)]}
Overridden(env) == {f \in Fields : env[f] # Nil}

\* config.Store: the environment's values laid over a document, and taken out
\* of it again (an overridden setting falls back to the stored value).
ApplyEnvironment(cfg, env) ==
    [f \in Fields |-> IF env[f] # Nil THEN Deref(env[f]) ELSE cfg[f]]
RemoveEnvironmentOverrides(cfg, cfgNoEnv, env) ==
    [f \in Fields |-> IF env[f] # Nil THEN cfgNoEnv[f] ELSE cfg[f]]

\* config.Store.Set(newCfg) under the store's lock: refuse when read-only or
\* invalid, else persist the document without the environment's values and make
\* the document with them the active one.  Returns (oldCfg, newCfg, err).
StoreSet(cfg, cfgNoEnv, env, ro, newCfg) ==
    IF ro THEN [err |-> "ErrReadOnlyConfiguration", config |-> cfg, configNoEnv |-> cfgNoEnv]
    ELSE IF ~IsValid(newCfg) THEN [err |-> "invalid", config |-> cfg, configNoEnv |-> cfgNoEnv]
    ELSE LET noEnv == RemoveEnvironmentOverrides(newCfg, cfgNoEnv, env)
         IN [err |-> "nil", config |-> ApplyEnvironment(noEnv, env), configNoEnv |-> noEnv]

\* ------------------------------------------------- client configuration
\* map[string]string values; strconv.FormatBool for the switches.
FormatBool(b) == IF b THEN "true" ELSE "false"
MapPut(m, k, v) == [x \in (DOMAIN m) \cup {k} |-> IF x = k THEN v ELSE m[x]]

\* config.GenerateClientConfig / GenerateLimitedClientConfig: total functions
\* of the document (telemetry id and license are fixed in the model).
GenerateClientConfig(cfg) ==
    [SiteURL |-> cfg.SiteURL,
     EnableCustomTermsOfService |-> FormatBool(cfg.EnableCustomTermsOfService),
     EnableMetrics |-> FormatBool(cfg.MetricsEnable)]
GenerateLimitedClientConfig(cfg) ==
    [SiteURL |-> cfg.SiteURL,
     EnableCustomTermsOfService |-> FormatBool(cfg.EnableCustomTermsOfService)]

\* json.Marshal of a map writes its members in sorted key order; md5.Sum and
\* %x give the digest of that text (an injective digest in the model).
SortedKeys ==
    <<"AsymmetricSigningPublicKey", "CustomTermsOfServiceId",
      "EnableCustomTermsOfService", "EnableMetrics", "SiteURL">>
IsKeyOf(m, k) == k \in DOMAIN m
MarshalMap(m) ==
    LET keys == SelectSeq(SortedKeys, LAMBDA k : IsKeyOf(m, k))
    IN [i \in 1..Len(keys) |-> <<keys[i], m[keys[i]]>>]
Md5Hex(json) == <<"md5", json>>

\* x509.MarshalPKIXPublicKey and base64 of the public half of the key.
PublicKeyString(key) == <<"base64", "der", key.Curve, key.X, key.Y>>

\* ------------------------------------------------------------------ state
VARIABLES
    system,                  \* the persistent system store, shared by all nodes
    systemAtStart,           \* the store as it was when the nodes started
    postActionCookieSecret,  \* per node: Channels.postActionCookieSecret
    asymmetricSigningKey,    \* per node: Channels.asymmetricSigningKey (atomic.Value)
    config,                  \* per node: config.Store's active document (Store.Get)
    configNoEnv,             \* per node: the stored document, no environment applied
    clientConfig,            \* per node: Channels.clientConfig (atomic.Value)
    limitedClientConfig,     \* per node: Channels.limitedClientConfig (atomic.Value)
    clientConfigHash,        \* per node: Channels.clientConfigHash (atomic.Value)
    metricsRunning,          \* per node: whether the metrics server runs
    readOnly,                \* config.Store.IsReadOnly()
    startMetrics,            \* Server.startMetrics
    clusterConfigured,       \* Server.Cluster != nil
    environment,             \* the environment overrides of the nodes
    termsOfService,          \* the latest terms of service in the store, if any
    inferredInstallDate,     \* Store.User().InferSystemInstallDate(); 0: none
    export,                  \* SpecExport: the arguments and result of the handler
    th,                      \* per thread: the running call and its locals
    calls                    \* the calls made so far

secrets == <<postActionCookieSecret, asymmetricSigningKey>>
store == <<config, configNoEnv>>
snapshot == <<clientConfig, limitedClientConfig, clientConfigHash>>
\* What no step of a call on the configuration or the secrets writes.
fixed == <<systemAtStart, readOnly, startMetrics, clusterConfigured, environment,
          termsOfService, inferredInstallDate, export>>
vars == <<system, secrets, store, snapshot, metricsRunning, fixed, th, calls>>

NoResult == [op |-> "none", val |-> "none"]
Idle(n) ==
    [node |-> n, op |-> "idle", pc |-> "idle", ret |-> NoResult, outage |-> FALSE,
     secret |-> Nil, key |-> Nil, saved |-> FALSE,
     oldCfg |-> Nil, newCfg |-> Nil, send |-> FALSE, enable |-> FALSE,
     clientConfig |-> Nil, limitedClientConfig |-> Nil,
     msg |-> Nil]

\* `saved` records that the call's Save was accepted (lines 210-212, 273-275).
\* A call returns: its locals die; what it returned, and whether the store
\* failed it, stay until the thread's next call.
Return(t, name, r) ==
    [Idle(th[t].node) EXCEPT !.ret = [op |-> name, val |-> r],
                             !.outage = th[t].op # "idle" /\ th[t].outage]
Call(t, name, at) == [Idle(th[t].node) EXCEPT !.op = name, !.pc = at]

\* A goroutine that runs no call may start one, while the run has calls left.
\* Goroutines (and nodes) are alike until they first run, so they are taken
\* into use in the order of their numbers.
MayCall(t) ==
    /\ th[t].pc = "idle"
    /\ calls < MaxCalls
    /\ \A u \in Threads : u < t => th[u] # Idle(th[u].node)

\* A store call fails for one of two reasons the code cannot tell apart: the
\* record (is absent, exists already) or the store cannot be reached.  The
\* model lets the store be unreachable only where that changes the outcome.
ReadOutcomes(sys, name) == {up \in BOOLEAN : up \/ sys[name] # NoRecord}
SaveOutcomes(sys, name) == {up \in BOOLEAN : up \/ sys[name] = NoRecord}

\* ---------------------------------------------- ensurePostActionCookieSecret
\* A fast path that is never taken.
CookieCachedNever(n) == FALSE

\* Line 176: the fast path.
CookieCached(n) == postActionCookieSecret[n] # Nil

\* Lines 176-187: the fast path, else the first read.
EnsureCookieStart(t) ==
    /\ MayCall(t)
    /\ calls' = calls + 1
    /\ IF CookieCached(th[t].node)
       THEN th' = [th EXCEPT ![t] = Return(t, "ensureCookie", "nil")]
       ELSE \E up \in ReadOutcomes(system, SystemPostActionCookieSecretKey) :
              LET r == GetByName(system, SystemPostActionCookieSecretKey, up)
                  u == UnmarshalSecret(r.value)
              IN IF r.err
                 THEN th' = [th EXCEPT ![t] =
                               [Call(t, "ensureCookie", "generate") EXCEPT !.outage = ~up]]
                 ELSE IF u.err
                 THEN th' = [th EXCEPT ![t] = Return(t, "ensureCookie", "err")]
                 ELSE th' = [th EXCEPT ![t] =
                               [Call(t, "ensureCookie",
                                     IF u.ptr = Nil THEN "generate" ELSE "cache")
                                EXCEPT !.secret = u.ptr]]
    /\ UNCHANGED <<system, secrets, store, snapshot, metricsRunning, fixed>>

\* Lines 208-212: the generated secret is used only if it was saved.
SecretAfterSaveAlways(err, newSecret) == Some(newSecret)
SecretAfterSave(err, newSecret) == IF err THEN Nil ELSE Some(newSecret)

\* Lines 190-213: generate 32 random bytes and insert them.
EnsureCookieGenerate(t) ==
    /\ th[t].op = "ensureCookie" /\ th[t].pc = "generate"
    /\ \E v \in SecretValues, up \in SaveOutcomes(system, SystemPostActionCookieSecretKey) :
         LET newSecret == [Secret |-> v]
             s == SystemSave(system, SystemPostActionCookieSecretKey,
                             MarshalSecret(newSecret), up)
             secret == SecretAfterSave(s.err, newSecret)
         IN /\ system' = s.sys
            /\ th' = [th EXCEPT ![t].secret = secret,
                                ![t].saved = ~s.err,
                                ![t].outage = @ \/ ~up,
                                ![t].pc = IF secret = Nil THEN "reread" ELSE "cache"]
    /\ UNCHANGED <<secrets, store, snapshot, metricsRunning, fixed, calls>>

\* A second read that hands the lost insert to the caller as an error.
EnsureCookieRereadSurfacesConflict(t) ==
    /\ th[t].op = "ensureCookie" /\ th[t].pc = "reread"
    /\ th' = [th EXCEPT ![t] = Return(t, "ensureCookie", "err")]
    /\ UNCHANGED <<system, secrets, store, snapshot, metricsRunning, fixed, calls>>

\* Lines 217-226: another server won; read its secret.  A null record leaves
\* the pointer nil, and line 228 then dereferences nil.
EnsureCookieReread(t) ==
    /\ th[t].op = "ensureCookie" /\ th[t].pc = "reread"
    /\ \E up \in ReadOutcomes(system, SystemPostActionCookieSecretKey) :
         LET r == GetByName(system, SystemPostActionCookieSecretKey, up)
             u == UnmarshalSecret(r.value)
         IN IF r.err \/ u.err
            THEN th' = [th EXCEPT ![t] = [Return(t, "ensureCookie", "err") EXCEPT !.outage = @ \/ ~up]]
            ELSE IF u.ptr = Nil
            THEN th' = [th EXCEPT ![t] = Return(t, "ensureCookie", "panic")]
            ELSE th' = [th EXCEPT ![t].secret = u.ptr, ![t].pc = "cache"]
    /\ UNCHANGED <<system, secrets, store, snapshot, metricsRunning, fixed, calls>>

\* Lines 228-229.
EnsureCookieCache(t) ==
    /\ th[t].op = "ensureCookie" /\ th[t].pc = "cache"
    /\ postActionCookieSecret' =
         [postActionCookieSecret EXCEPT ![th[t].node] = Some(Deref(th[t].secret).Secret)]
    /\ th' = [th EXCEPT ![t] = Return(t, "ensureCookie", "nil")]
    /\ UNCHANGED <<system, asymmetricSigningKey, store, snapshot, metricsRunning, fixed, calls>>

\* ------------------------------------------------ ensureAsymmetricSigningKey
\* Lines 349-354.
AsymmetricSigningKey(n) == asymmetricSigningKey[n]

\* A curve check that takes every named curve for P-256.
CurveOfLenient(name) == Some("P256")

\* Lines 291-297: the curve named by the record.
CurveOf(name) == IF name = "P-256" THEN Some("P256") ELSE Nil

\* Lines 235-246: the fast path, else the first read.
EnsureKeyStart(t) ==
    /\ MayCall(t)
    /\ calls' = calls + 1
    /\ IF AsymmetricSigningKey(th[t].node) # Nil
       THEN th' = [th EXCEPT ![t] = Return(t, "ensureKey", "nil")]
       ELSE \E up \in ReadOutcomes(system, SystemAsymmetricSigningKeyKey) :
              LET r == GetByName(system, SystemAsymmetricSigningKeyKey, up)
                  u == UnmarshalKey(r.value)
              IN IF r.err
                 THEN th' = [th EXCEPT ![t] =
                               [Call(t, "ensureKey", "generate") EXCEPT !.outage = ~up]]
                 ELSE IF u.err
                 THEN th' = [th EXCEPT ![t] = Return(t, "ensureKey", "err")]
                 ELSE th' = [th EXCEPT ![t] =
                               [Call(t, "ensureKey",
                                     IF u.ptr = Nil THEN "generate" ELSE "cache")
                                EXCEPT !.key = u.ptr]]
    /\ UNCHANGED <<system, secrets, store, snapshot, metricsRunning, fixed>>

\* Lines 249-276: generate a P-256 key and insert it.
EnsureKeyGenerate(t) ==
    /\ th[t].op = "ensureKey" /\ th[t].pc = "generate"
    /\ \E d \in SecretValues, up \in SaveOutcomes(system, SystemAsymmetricSigningKeyKey) :
         LET newECDSAKey == GenerateKey(d)
             newKey == [ECDSAKey |-> [Curve |-> "P-256", X |-> newECDSAKey.X,
                                      Y |-> newECDSAKey.Y, D |-> newECDSAKey.D]]
             s == SystemSave(system, SystemAsymmetricSigningKeyKey, MarshalKey(newKey), up)
             key == IF s.err THEN Nil ELSE Some(newKey)
         IN /\ system' = s.sys
            /\ th' = [th EXCEPT ![t].key = key,
                                ![t].saved = ~s.err,
                                ![t].outage = @ \/ ~up,
                                ![t].pc = IF key = Nil THEN "reread" ELSE "cache"]
    /\ UNCHANGED <<secrets, store, snapshot, metricsRunning, fixed, calls>>

\* Lines 280-289.  A null record leaves the pointer nil, and line 292 then
\* dereferences nil.
EnsureKeyReread(t) ==
    /\ th[t].op = "ensureKey" /\ th[t].pc = "reread"
    /\ \E up \in ReadOutcomes(system, SystemAsymmetricSigningKeyKey) :
         LET r == GetByName(system, SystemAsymmetricSigningKeyKey, up)
             u == UnmarshalKey(r.value)
         IN IF r.err \/ u.err
            THEN th' = [th EXCEPT ![t] = [Return(t, "ensureKey", "err") EXCEPT !.outage = @ \/ ~up]]
            ELSE IF u.ptr = Nil
            THEN th' = [th EXCEPT ![t] = Return(t, "ensureKey", "panic")]
            ELSE th' = [th EXCEPT ![t].key = u.ptr, ![t].pc = "cache"]
    /\ UNCHANGED <<system, secrets, store, snapshot, metricsRunning, fixed, calls>>

\* A curve check made only after the key has been stored.
EnsureKeyCacheBeforeCheck(t) ==
    /\ th[t].op = "ensureKey" /\ th[t].pc = "cache"
    /\ LET key == Deref(th[t].key)
       IN /\ asymmetricSigningKey' =
               [asymmetricSigningKey EXCEPT ![th[t].node] =
                   Some([Curve |-> "P256", X |-> key.ECDSAKey.X,
                         Y |-> key.ECDSAKey.Y, D |-> key.ECDSAKey.D])]
          /\ th' = IF CurveOf(key.ECDSAKey.Curve) = Nil
                   THEN [th EXCEPT ![t] = Return(t, "ensureKey", "err")]
                   ELSE [th EXCEPT ![t].pc = "regen1"]
    /\ UNCHANGED <<system, postActionCookieSecret, store, snapshot, metricsRunning, fixed, calls>>

\* Lines 291-306: check the curve, store the private key, then regenerate the
\* client configuration (the steps of regenerateClientConfig follow).
EnsureKeyCache(t) ==
    /\ th[t].op = "ensureKey" /\ th[t].pc = "cache"
    /\ LET key == Deref(th[t].key)
           curve == CurveOf(key.ECDSAKey.Curve)
       IN IF curve = Nil
          THEN /\ th' = [th EXCEPT ![t] = Return(t, "ensureKey", "err")]
               /\ UNCHANGED asymmetricSigningKey
          ELSE /\ asymmetricSigningKey' =
                    [asymmetricSigningKey EXCEPT ![th[t].node] =
                        Some([Curve |-> Deref(curve), X |-> key.ECDSAKey.X,
                              Y |-> key.ECDSAKey.Y, D |-> key.ECDSAKey.D])]
               /\ th' = [th EXCEPT ![t].pc = "regen1"]
    /\ UNCHANGED <<system, postActionCookieSecret, store, snapshot, metricsRunning, fixed, calls>>

\* ------------------------------------------------- regenerateClientConfig
\* Line 369: the full projection of the active document.
RegenFull(t) ==
    /\ th[t].pc = "regen1"
    /\ th' = [th EXCEPT ![t].clientConfig = Some(GenerateClientConfig(config[th[t].node])),
                        ![t].pc = "regen2"]
    /\ UNCHANGED <<system, secrets, store, snapshot, metricsRunning, fixed, calls>>

\* Line 370: the limited projection, from a second load of the active document.
RegenLimited(t) ==
    /\ th[t].pc = "regen2"
    /\ th' = [th EXCEPT ![t].limitedClientConfig =
                            Some(GenerateLimitedClientConfig(config[th[t].node])),
                        ![t].pc = "regen3"]
    /\ UNCHANGED <<system, secrets, store, snapshot, metricsRunning, fixed, calls>>

\* Lines 372-380: the id of the latest terms of service; GetLatest fails when
\* there are none.
WithTermsOfService(m, enabled, latest) ==
    IF enabled /\ latest # Nil THEN MapPut(m, "CustomTermsOfServiceId", Deref(latest)) ELSE m
\* Lines 382-386: the public key, when a key is stored.
WithPublicKey(m, key) ==
    IF key # Nil THEN MapPut(m, "AsymmetricSigningPublicKey", PublicKeyString(Deref(key))) ELSE m

\* Lines 372-386: the computed members of both projections.
RegenComputed(t) ==
    /\ th[t].pc = "regen3"
    /\ LET cc == Deref(th[t].clientConfig)
           lc == Deref(th[t].limitedClientConfig)
           enabled == cc["EnableCustomTermsOfService"] = "true"
           key == AsymmetricSigningKey(th[t].node)
       IN th' = [th EXCEPT
            ![t].clientConfig =
                Some(WithPublicKey(WithTermsOfService(cc, enabled, termsOfService), key)),
            ![t].limitedClientConfig =
                Some(WithPublicKey(WithTermsOfService(lc, enabled, termsOfService), key)),
            ![t].pc = "regen4"]
    /\ UNCHANGED <<system, secrets, store, snapshot, metricsRunning, fixed, calls>>

\* Line 389.
RegenStoreFull(t) ==
    /\ th[t].pc = "regen4"
    /\ clientConfig' = [clientConfig EXCEPT ![th[t].node] = Deref(th[t].clientConfig)]
    /\ th' = [th EXCEPT ![t].pc = "regen5"]
    /\ UNCHANGED <<system, secrets, store, limitedClientConfig, clientConfigHash,
                   metricsRunning, fixed, calls>>

\* Line 390.
RegenStoreLimited(t) ==
    /\ th[t].pc = "regen5"
    /\ limitedClientConfig' =
         [limitedClientConfig EXCEPT ![th[t].node] = Deref(th[t].limitedClientConfig)]
    /\ th' = [th EXCEPT ![t].pc = "regen6"]
    /\ UNCHANGED <<system, secrets, store, clientConfig, clientConfigHash,
                   metricsRunning, fixed, calls>>

\* Every caller going on as SaveConfig does.
AfterRegenAsSave(t) ==
    [th[t] EXCEPT !.pc = "metrics", !.clientConfig = Nil, !.limitedClientConfig = Nil]

\* Where the caller of regenerateClientConfig goes on: SaveConfig at line 77,
\* the other callers return.
AfterRegen(t) ==
    IF th[t].op = "SaveConfig"
    THEN [th[t] EXCEPT !.pc = "metrics", !.clientConfig = Nil, !.limitedClientConfig = Nil]
    ELSE Return(t, th[t].op, "nil")

\* Lines 388 and 391: the digest of the full projection this call built.
RegenStoreHash(t) ==
    /\ th[t].pc = "regen6"
    /\ clientConfigHash' =
         [clientConfigHash EXCEPT ![th[t].node] = Md5Hex(MarshalMap(Deref(th[t].clientConfig)))]
    /\ th' = [th EXCEPT ![t] = AfterRegen(t)]
    /\ UNCHANGED <<system, secrets, store, clientConfig, limitedClientConfig,
                   metricsRunning, fixed, calls>>

Regenerate(t) ==
    \/ RegenFull(t)
    \/ RegenLimited(t)
    \/ RegenComputed(t)
    \/ RegenStoreFull(t)
    \/ RegenStoreLimited(t)
    \/ RegenStoreHash(t)

\* ------------------------------------------------------------ SaveConfig
\* Lines 71-75: the error SaveConfig returns for a failed Store.Set.
SaveErrorFlipped(err) ==
    IF err = "ErrReadOnlyConfiguration" THEN "StatusInternalServerError" ELSE "StatusForbidden"
SaveError(err) ==
    IF err = "ErrReadOnlyConfiguration" THEN "StatusForbidden" ELSE "StatusInternalServerError"

\* Store.Set, once the swap is done, runs the registered listeners on the
\* caller's goroutine, outside the store's lock: the server's listener is
\* regenerateClientConfig.
InvokeConfigListeners == "regen1"

\* Lines 70-75 with a mutation of the active document in place of the swap:
\* the metrics switch is written, the rest of the document is not (yet).
SaveConfigSetInPlace(t) ==
    /\ MayCall(t)
    /\ calls' = calls + 1
    /\ \E newCfg \in Docs, send \in BOOLEAN :
         LET n == th[t].node
             r == StoreSet(config[n], configNoEnv[n], environment, readOnly, newCfg)
         IN /\ r.err = "nil"
            /\ config' = [config EXCEPT ![n] =
                             [config[n] EXCEPT !.MetricsEnable = r.config.MetricsEnable]]
            /\ configNoEnv' = [configNoEnv EXCEPT ![n] = r.configNoEnv]
            /\ th' = [th EXCEPT ![t] =
                        [Call(t, "SaveConfig", InvokeConfigListeners)
                         EXCEPT !.oldCfg = Some(config[n]), !.newCfg = Some(r.config),
                                !.send = send]]
    /\ UNCHANGED <<system, secrets, snapshot, metricsRunning, fixed>>

\* Lines 70-75: Store.Set(newCfg); an error returns at once.
SaveConfigSet(t) ==
    /\ MayCall(t)
    /\ calls' = calls + 1
    /\ \E newCfg \in Docs, send \in BOOLEAN :
         LET n == th[t].node
             r == StoreSet(config[n], configNoEnv[n], environment, readOnly, newCfg)
         IN IF r.err # "nil"
            THEN /\ th' = [th EXCEPT ![t] = Return(t, "SaveConfig", SaveError(r.err))]
                 /\ UNCHANGED store
            ELSE /\ config' = [config EXCEPT ![n] = r.config]
                 /\ configNoEnv' = [configNoEnv EXCEPT ![n] = r.configNoEnv]
                 /\ th' = [th EXCEPT ![t] =
                             [Call(t, "SaveConfig", InvokeConfigListeners)
                              EXCEPT !.oldCfg = Some(config[n]), !.newCfg = Some(r.config),
                                     !.send = send]]
    /\ UNCHANGED <<system, secrets, snapshot, metricsRunning, fixed>>

\* Line 77: the switch is read from the active document, not from newCfg.
SaveConfigMetrics(t) ==
    /\ th[t].pc = "metrics"
    /\ th' = [th EXCEPT ![t].enable = startMetrics /\ config[th[t].node].MetricsEnable,
                        ![t].pc = "metricsApply"]
    /\ UNCHANGED <<system, secrets, store, snapshot, metricsRunning, fixed, calls>>

\* Lines 78-84: Register and SetupMetricsServer, or StopMetricsServer.
SaveConfigMetricsApply(t) ==
    /\ th[t].pc = "metricsApply"
    /\ metricsRunning' = [metricsRunning EXCEPT ![th[t].node] = th[t].enable]
    /\ th' = [th EXCEPT ![t].pc = "cluster"]
    /\ UNCHANGED <<system, secrets, store, snapshot, fixed, calls>>

\* Lines 87-88: what is handed to the cluster of a document.
ClusterDocumentRaw(cfg, n) == cfg
ClusterDocument(cfg, n) == RemoveEnvironmentOverrides(cfg, configNoEnv[n], environment)

\* Lines 86-88: Cluster.ConfigChanged(old, new, send) is called.
SaveConfigCluster(t) ==
    /\ th[t].pc = "cluster"
    /\ IF ~clusterConfigured
       THEN th' = [th EXCEPT ![t] = Return(t, th[t].op, "nil")]
       ELSE LET n == th[t].node
                msg == [oldCfg |-> ClusterDocument(Deref(th[t].oldCfg), n),
                        newCfg |-> ClusterDocument(Deref(th[t].newCfg), n),
                        send |-> th[t].send]
            IN th' = [th EXCEPT ![t].msg = Some(msg), ![t].pc = "notify"]
    /\ UNCHANGED <<system, secrets, store, snapshot, metricsRunning, fixed, calls>>

\* Lines 89-94 with a rollback of the swap when the cluster call failed.
SaveConfigNotifiedRollback(t) ==
    /\ th[t].pc = "notify"
    /\ \E ok \in BOOLEAN :
         /\ th' = [th EXCEPT ![t] = Return(t, th[t].op, IF ok THEN "nil" ELSE "ClusterErr")]
         /\ config' = IF ok THEN config
                      ELSE [config EXCEPT ![th[t].node] = Deref(th[t].oldCfg)]
    /\ UNCHANGED <<system, secrets, configNoEnv, snapshot, metricsRunning, fixed, calls>>

\* Lines 89-94: the cluster call returns, with an error or without.
SaveConfigNotified(t) ==
    /\ th[t].pc = "notify"
    /\ \E ok \in BOOLEAN :
         th' = [th EXCEPT ![t] = Return(t, th[t].op, IF ok THEN "nil" ELSE "ClusterErr")]
    /\ UNCHANGED <<system, secrets, store, snapshot, metricsRunning, fixed, calls>>

\* ---------------------------------------------------------- UpdateConfig
\* The functions f handed to UpdateConfig: each writes one setting.
Mutators ==
    {<<"MetricsEnable", TRUE>>, <<"MetricsEnable", FALSE>>,
     <<"EnableCustomTermsOfService", TRUE>>, <<"EnableCustomTermsOfService", FALSE>>,
     <<"SiteURL", "bad">>}
ApplyMutator(f, cfg) == [cfg EXCEPT ![f[1]] = f[2]]

\* Line 58.
UpdateReturnsEarlyNever == FALSE
UpdateReturnsEarly == readOnly

\* Lines 58-63: the read-only check, then the mutator on a clone of Config().
UpdateConfigStart(t) ==
    /\ MayCall(t)
    /\ calls' = calls + 1
    /\ IF UpdateReturnsEarly
       THEN th' = [th EXCEPT ![t] = Return(t, "UpdateConfig", "nil")]
       ELSE \E f \in Mutators :
              LET old == config[th[t].node]
                  updated == ApplyMutator(f, old)
              IN th' = [th EXCEPT ![t] =
                          [Call(t, "UpdateConfig", "set") EXCEPT !.newCfg = Some(updated)]]
    /\ UNCHANGED <<system, secrets, store, snapshot, metricsRunning, fixed>>

\* Lines 64-66: Store.Set(updated); an error is logged.
UpdateConfigSet(t) ==
    /\ th[t].op = "UpdateConfig" /\ th[t].pc = "set"
    /\ LET n == th[t].node
           r == StoreSet(config[n], configNoEnv[n], environment, readOnly, Deref(th[t].newCfg))
       IN IF r.err # "nil"
          THEN /\ th' = [th EXCEPT ![t] = Return(t, "UpdateConfig", "logged")]
               /\ UNCHANGED store
          ELSE /\ config' = [config EXCEPT ![n] = r.config]
               /\ configNoEnv' = [configNoEnv EXCEPT ![n] = r.configNoEnv]
               /\ th' = [th EXCEPT ![t].pc = InvokeConfigListeners, ![t].newCfg = Nil]
    /\ UNCHANGED <<system, secrets, snapshot, metricsRunning, fixed, calls>>

\* ------------------------------------------------ HandleMessageExportConfig
\* Lines 480-489, with the clock's !.ExportFromTimestamp rewrite done whether
\* or not the switch was toggled.
HandleMessageExportConfigAlways(cfg, appCfg, now) ==
    IF cfg.EnableExport /\ cfg.ExportFromTimestamp = 0
    THEN [cfg EXCEPT !.ExportFromTimestamp = now]
    ELSE IF ~cfg.EnableExport
    THEN [cfg EXCEPT !.ExportFromTimestamp = 0]
    ELSE cfg

\* Lines 476-490: cfg after the call; now is model.GetMillis().
HandleMessageExportConfig(cfg, appCfg, now) ==
    IF cfg.EnableExport # appCfg.EnableExport
    THEN IF cfg.EnableExport /\ cfg.ExportFromTimestamp = 0
         THEN [cfg EXCEPT !.ExportFromTimestamp = now]
         ELSE IF ~cfg.EnableExport
         THEN [cfg EXCEPT !.ExportFromTimestamp = 0]
         ELSE cfg
    ELSE cfg

NoExport == [pc |-> "none"]
MessageExportSettings == [EnableExport : BOOLEAN, ExportFromTimestamp : 0..MaxTime]

\* One call of the handler on the arguments Init drew.
CallHandleMessageExportConfig ==
    /\ export.pc = "call"
    /\ export' = [export EXCEPT
                    !.pc = "done",
                    !.out = HandleMessageExportConfig(export.cfg, export.appCfg, export.now)]
    /\ UNCHANGED <<system, secrets, store, snapshot, metricsRunning, th, calls,
                   systemAtStart, readOnly, startMetrics, clusterConfigured, environment,
                   termsOfService, inferredInstallDate>>

\* ------------------------------------------------------------ specifications
\* The file the nodes were started from, and what construction leaves.
StartDoc == [MetricsEnable |-> FALSE, EnableCustomTermsOfService |-> FALSE, SiteURL |-> "ok"]
StartClientConfig ==
    LET cc == GenerateClientConfig(ApplyEnvironment(StartDoc, environment))
    IN WithTermsOfService(cc, cc["EnableCustomTermsOfService"] = "true", termsOfService)
StartLimitedClientConfig ==
    LET lc == GenerateLimitedClientConfig(ApplyEnvironment(StartDoc, environment))
    IN WithTermsOfService(lc, lc["EnableCustomTermsOfService"] = "true", termsOfService)

InitNode ==
    /\ postActionCookieSecret = [n \in Nodes |-> Nil]
    /\ asymmetricSigningKey = [n \in Nodes |-> Nil]
    /\ configNoEnv = [n \in Nodes |-> StartDoc]
    /\ config = [n \in Nodes |-> ApplyEnvironment(StartDoc, environment)]
    /\ clientConfig = [n \in Nodes |-> StartClientConfig]
    /\ limitedClientConfig = [n \in Nodes |-> StartLimitedClientConfig]
    /\ clientConfigHash = [n \in Nodes |-> Md5Hex(MarshalMap(StartClientConfig))]
    /\ metricsRunning = [n \in Nodes |-> FALSE]

\* Records the store may hold when the nodes start.
P384Record ==
    MarshalKey([ECDSAKey |-> [Curve |-> "P-384", X |-> 2, Y |-> 3, D |-> 1]])
StartRecords ==
    {r \in [SystemNames -> {NoRecord, Some(JSONNull), Some(JSONGarbage), Some(P384Record)}] :
        /\ r[SystemPostActionCookieSecretKey] # Some(P384Record)
        /\ r[SystemPostActionCookieSecretKey] = NoRecord
             \/ r[SystemAsymmetricSigningKeyKey] = NoRecord}

\* SpecSecret: one goroutine per node, all nodes on one system store.
InitSecret ==
    /\ system \in StartRecords
    /\ systemAtStart = system
    /\ readOnly = FALSE /\ startMetrics = FALSE /\ clusterConfigured = FALSE
    /\ environment = NoEnvironment
    /\ termsOfService \in {Nil, Some("tos")}
    /\ inferredInstallDate = 0
    /\ export = NoExport
    /\ InitNode
    /\ calls = 0
    /\ th = [t \in Threads |-> Idle(t)]

NextSecret ==
    \E t \in Threads :
        \/ EnsureCookieStart(t)
        \/ EnsureCookieGenerate(t)
        \/ EnsureCookieReread(t)
        \/ EnsureCookieCache(t)
        \/ EnsureKeyStart(t)
        \/ EnsureKeyGenerate(t)
        \/ EnsureKeyReread(t)
        \/ EnsureKeyCache(t)
        \/ Regenerate(t)

SpecSecret == InitSecret /\ [][NextSecret]_vars

\* Spec: two goroutines of one node (node 1) on its configuration, the least
\* that race; MaxCalls bounds the calls they make between them.
Goroutines == {1, 2}
Init ==
    /\ system = [name \in SystemNames |-> NoRecord]
    /\ systemAtStart = system
    /\ readOnly \in BOOLEAN /\ startMetrics \in BOOLEAN /\ clusterConfigured \in BOOLEAN
    /\ environment \in Environments
    /\ termsOfService = Some("tos")
    /\ inferredInstallDate = 0
    /\ export = NoExport
    /\ InitNode
    /\ calls = 0
    /\ th = [t \in Threads |-> Idle(1)]

Next ==
    \E t \in Goroutines :
        \/ SaveConfigSet(t)
        \/ SaveConfigMetrics(t)
        \/ SaveConfigMetricsApply(t)
        \/ SaveConfigCluster(t)
        \/ SaveConfigNotified(t)
        \/ UpdateConfigStart(t)
        \/ UpdateConfigSet(t)
        \/ Regenerate(t)

Spec == Init /\ [][Next]_vars

\* SpecExport: HandleMessageExportConfig on every pair of documents within the
\* bounds, at every clock reading (the clock never reads 0).
InitExport ==
    /\ system = [name \in SystemNames |-> NoRecord]
    /\ systemAtStart = system
    /\ readOnly = FALSE /\ startMetrics = FALSE /\ clusterConfigured = FALSE
    /\ environment = NoEnvironment
    /\ termsOfService = Nil
    /\ inferredInstallDate = 0
    /\ InitNode
    /\ calls = 0
    /\ th = [t \in Threads |-> Idle(1)]
    /\ \E cfg \in MessageExportSettings, appCfg \in MessageExportSettings, now \in 1..MaxTime :
         export = [pc |-> "call", cfg |-> cfg, appCfg |-> appCfg, now |-> now, out |-> cfg]

NextExport == CallHandleMessageExportConfig

SpecExport == InitExport /\ [][NextExport]_vars

\* ------------------------------------------------------------------ claims
StartedEmpty(name) == systemAtStart[name] = NoRecord
Succeeded(t, name) == th[t].ret = [op |-> name, val |-> "nil"]
StartConfig == ApplyEnvironment(StartDoc, environment)
SnapshotAsStarted(n) ==
    /\ clientConfig[n] = StartClientConfig
    /\ limitedClientConfig[n] = StartLimitedClientConfig
    /\ clientConfigHash[n] = Md5Hex(MarshalMap(StartClientConfig))
OthersNeverRan(t) == \A u \in Threads \ {t} : th[u] = Idle(th[u].node)
\* The step is a call that returned in its first step: every goroutine is
\* where it was.
ReturnedAtOnce ==
    /\ calls' = calls + 1
    /\ \A u \in Threads : th'[u].pc = th[u].pc

\* The secret a node holds is the one the store holds.
CookieIsPersisted(n) ==
    /\ system[SystemPostActionCookieSecretKey] # NoRecord
    /\ UnmarshalSecret(Deref(system[SystemPostActionCookieSecretKey])).ptr
         = Some([Secret |-> Deref(postActionCookieSecret[n])])
KeyIsPersisted(n) ==
    /\ system[SystemAsymmetricSigningKeyKey] # NoRecord
    /\ LET u == UnmarshalKey(Deref(system[SystemAsymmetricSigningKeyKey]))
           k == Deref(asymmetricSigningKey[n])
       IN /\ u.ptr # Nil
          /\ Deref(u.ptr).ECDSAKey =
               [Curve |-> "P-256", X |-> k.X, Y |-> k.Y, D |-> k.D]

\* C1: with no record under a secret's name at the start, the record under
\* that name, once written, is never replaced by another value; a node whose
\* ensure call returned success holds a secret, and the secret a node holds is
\* the persisted one (so two nodes that both succeeded hold the same secret).
C1_OneSecretClusterWide ==
    /\ [](\A t \in Threads :
            /\ (StartedEmpty(SystemPostActionCookieSecretKey) /\ Succeeded(t, "ensureCookie"))
                 => postActionCookieSecret[th[t].node] # Nil
            /\ (StartedEmpty(SystemAsymmetricSigningKeyKey) /\ Succeeded(t, "ensureKey"))
                 => asymmetricSigningKey[th[t].node] # Nil)
    /\ [](\A n \in Nodes :
            /\ (StartedEmpty(SystemPostActionCookieSecretKey) /\ postActionCookieSecret[n] # Nil)
                 => CookieIsPersisted(n)
            /\ (StartedEmpty(SystemAsymmetricSigningKeyKey) /\ asymmetricSigningKey[n] # Nil)
                 => KeyIsPersisted(n))
    /\ [][\A name \in SystemNames :
            (StartedEmpty(name) /\ system[name] # NoRecord) => system'[name] = system[name]]_vars

\* C1's case: the store started empty, both nodes ran ensure for the cookie
\* secret, and both hold a secret.
C1_Witness ==
    /\ StartedEmpty(SystemPostActionCookieSecretKey)
    /\ \A n \in {1, 2} : postActionCookieSecret[n] # Nil
    /\ \A t \in {1, 2} : Succeeded(t, "ensureCookie")

\* C2: the stored hash is at every instant the digest of the serialization
\* of the stored full projection.
C2_HashOfProjection ==
    \A n \in Nodes : clientConfigHash[n] = Md5Hex(MarshalMap(clientConfig[n]))

\* C3: the active document only ever changes in one step of a Save or an
\* Update, from the document active before to the whole document that call
\* installs (valid, the environment applied): no reader of Config() sees a
\* partly written or a third document.
C3_SaveIsAtomic ==
    [][\A n \in Nodes :
         config'[n] # config[n] =>
           /\ IsValid(config'[n])
           /\ config'[n] = ApplyEnvironment(configNoEnv'[n], environment)
           /\ \E t \in Threads :
                /\ th[t].node = n
                /\ th[t].pc \in {"idle", "set"} /\ th'[t].pc = InvokeConfigListeners
                /\ \/ /\ th'[t].op = "SaveConfig"
                      /\ th'[t].oldCfg = Some(config[n])
                      /\ th'[t].newCfg = Some(config'[n])
                   \/ /\ th[t].op = "UpdateConfig"
                      /\ \A f \in Fields \ Overridden(environment) :
                           config'[n][f] = Deref(th[t].newCfg)[f]]_vars

\* C3's case: a Save has just swapped in a document that differs from the one
\* it replaced.
C3_Witness ==
    \E t \in Threads :
        /\ th[t].op = "SaveConfig" /\ th[t].pc = "regen1"
        /\ th[t].oldCfg # th[t].newCfg
        /\ config[th[t].node] = Deref(th[t].newCfg)

\* C4: the step in which SaveConfig returns the cluster's error leaves the
\* store as it is; if no other goroutine ran, the active document is then the
\* document that Save installed.
C4_NoRollbackOnClusterError ==
    [][\A t \in Threads :
         (th[t].pc = "notify" /\ th'[t].ret = [op |-> "SaveConfig", val |-> "ClusterErr"]
             /\ th'[t].pc = "idle")
         => /\ UNCHANGED <<config, configNoEnv>>
            /\ OthersNeverRan(t) => config'[th[t].node] = Deref(th[t].newCfg)]_vars

\* C4's case: a Save of a document that differs from the active one returned
\* the cluster's error.
C4_Witness ==
    \E t \in Threads :
        /\ th[t].ret = [op |-> "SaveConfig", val |-> "ClusterErr"]
        /\ OthersNeverRan(t)
        /\ config[th[t].node] # StartConfig

\* C5: on a read-only store UpdateConfig returns before it clones or mutates
\* a document and before Store.Set: no goroutine is ever inside UpdateConfig
\* (or a listener), and store, snapshot and metrics stay as they started.
C5_UpdateNoOpWhenReadOnly ==
    readOnly =>
        /\ \A t \in Threads :
             /\ th[t].op # "UpdateConfig"
             /\ th[t].pc = "idle"
             /\ th[t].newCfg = Nil
             /\ th[t].ret.op = "UpdateConfig" => th[t].ret.val = "nil"
        /\ \A n \in Nodes :
             /\ config[n] = StartConfig /\ configNoEnv[n] = StartDoc
             /\ SnapshotAsStarted(n)
             /\ ~metricsRunning[n]

\* C5's case: UpdateConfig was called on a read-only store and has returned.
C5_Witness ==
    readOnly /\ \E t \in Threads : th[t].ret.op = "UpdateConfig"

\* C6: a SaveConfig whose Store.Set fails returns in its first step: in that
\* step store, snapshot and metrics server are untouched and nothing is handed
\* to the cluster, and the error it returns is 403 for a read-only store and
\* 500 otherwise.
C6_FailedSaveHasNoEffect ==
    [][ReturnedAtOnce
         => /\ UNCHANGED <<store, snapshot, metricsRunning>>
            /\ \A u \in Threads : th'[u].msg = th[u].msg
            /\ \A t \in Threads :
                 (th'[t] # th[t] /\ th'[t].ret.op = "SaveConfig")
                 => /\ th'[t].msg = Nil
                    /\ th'[t].ret.val =
                         IF readOnly THEN "StatusForbidden"
                                     ELSE "StatusInternalServerError"]_vars

\* C6's case: a Save failed validation after an earlier call had installed a
\* document, which is still the active one.
C6_Witness ==
    \E t \in Threads :
        /\ th[t].ret = [op |-> "SaveConfig", val |-> "StatusInternalServerError"]
        /\ config[th[t].node] # StartConfig
        /\ \A u \in Threads : th[u].pc = "idle"

\* C7: in a message handed to the cluster, no overridden setting of the old
\* or the new document carries the environment's value.
C7_NoEnvironmentInClusterMessage ==
    \A t \in Threads :
        th[t].msg # Nil =>
            \A f \in Overridden(environment) :
                /\ Deref(th[t].msg).oldCfg[f] # Deref(environment[f])
                /\ Deref(th[t].msg).newCfg[f] # Deref(environment[f])

\* C7's case: a message is with the cluster for a Save whose old and new
\* documents both carry the environment's value.
C7_Witness ==
    \E t \in Threads :
        /\ th[t].msg # Nil
        /\ Overridden(environment) # {}
        /\ \A f \in Overridden(environment) :
             /\ Deref(th[t].oldCfg)[f] = Deref(environment[f])
             /\ Deref(th[t].newCfg)[f] = Deref(environment[f])

\* C8: with a P-384 key record in the store, no ensureAsymmetricSigningKey
\* call returns success, the record is not replaced, no node caches a key and
\* no snapshot is regenerated; a call that read the record goes straight to
\* the curve check (it generates only if the store failed its read).
C8_UnknownCurveIsAnError ==
    systemAtStart[SystemAsymmetricSigningKeyKey] = Some(P384Record) =>
        /\ system[SystemAsymmetricSigningKeyKey] = Some(P384Record)
        /\ \A n \in Nodes : asymmetricSigningKey[n] = Nil /\ SnapshotAsStarted(n)
        /\ \A t \in Threads :
             /\ th[t].ret.op = "ensureKey" => th[t].ret.val = "err"
             /\ th[t].op = "ensureKey" =>
                  /\ th[t].pc \in {"generate", "reread", "cache"}
                  /\ ~th[t].outage => th[t].pc = "cache"

\* C8's case: a call read the P-384 record and returned its error.
C8_Witness ==
    /\ systemAtStart[SystemAsymmetricSigningKeyKey] = Some(P384Record)
    /\ \E t \in Threads :
         th[t].ret = [op |-> "ensureKey", val |-> "err"] /\ ~th[t].outage

\* C9: after the handler, cfg's timestamp is the clock's reading if export
\* went from off to on with a timestamp of 0, is 0 if export went from on to
\* off, and is what it was if the switch is the same in cfg and appCfg.
C9_ExportTimestamp ==
    export.pc = "done" =>
        LET cfg == export.cfg
            appCfg == export.appCfg
            after == export.out.ExportFromTimestamp
        IN /\ (~appCfg.EnableExport /\ cfg.EnableExport /\ cfg.ExportFromTimestamp = 0)
                => after = export.now
           /\ (appCfg.EnableExport /\ ~cfg.EnableExport) => after = 0
           /\ cfg.EnableExport = appCfg.EnableExport => after = cfg.ExportFromTimestamp
           /\ export.out.EnableExport = cfg.EnableExport

\* C9's case: export was switched on with no timestamp, and the handler set it.
C9_Witness ==
    /\ export.pc = "done"
    /\ ~export.appCfg.EnableExport /\ export.cfg.EnableExport
    /\ export.cfg.ExportFromTimestamp = 0
    /\ export.out.ExportFromTimestamp = export.now

\* C10 as stated: with the cluster configured, an UpdateConfig that installed
\* its document returns only from the cluster call, as SaveConfig does.
C10_UpdateGoesThroughSave ==
    [][\A t \in Threads :
         (clusterConfigured /\ th[t].op = "UpdateConfig"
             /\ th'[t].ret = [op |-> "UpdateConfig", val |-> "nil"])
         => th[t].pc = "notify"]_vars

\* C10 as amended: UpdateConfig installs the mutated clone by Store.Set and
\* runs the listeners, and nothing else: a goroutine inside UpdateConfig is
\* never at SaveConfig's metrics or cluster steps and hands nothing to the
\* cluster.
C10_UpdateInstallsBySetOnly ==
    \A t \in Threads :
        th[t].op = "UpdateConfig" =>
            /\ th[t].pc \in {"set", "regen1", "regen2", "regen3", "regen4", "regen5", "regen6"}
            /\ th[t].msg = Nil

\* C10's case: with the cluster configured, an Update installed a changed
\* document and returned.
C10_Witness ==
    /\ clusterConfigured /\ ~readOnly
    /\ \E t \in Threads :
         /\ th[t].ret = [op |-> "UpdateConfig", val |-> "nil"]
         /\ OthersNeverRan(t)
         /\ config[th[t].node] # StartConfig

\* C11: once every SaveConfig call has returned success, the metrics server
\* (start-up permitted) runs exactly when metrics are enabled in the active
\* document.
C11_MetricsFollowActiveDocument ==
    (startMetrics /\ \A t \in Goroutines : th[t].pc = "idle" /\ Succeeded(t, "SaveConfig"))
    => \A n \in {1} : metricsRunning[n] = config[n].MetricsEnable

\* SpecSnapshot: two goroutines of one node, one resolving the signing key
\* while the other changes the configuration; both end in
\* regenerateClientConfig.
InitSnapshot ==
    /\ system = [name \in SystemNames |-> NoRecord]
    /\ systemAtStart = system
    /\ readOnly = FALSE /\ startMetrics = FALSE /\ clusterConfigured = FALSE
    /\ environment = NoEnvironment
    /\ termsOfService = Some("tos")
    /\ inferredInstallDate = 0
    /\ export = NoExport
    /\ InitNode
    /\ calls = 0
    /\ th = [t \in Threads |-> Idle(1)]

NextSnapshot ==
    \E t \in Goroutines :
        \/ EnsureKeyStart(t)
        \/ EnsureKeyGenerate(t)
        \/ EnsureKeyReread(t)
        \/ EnsureKeyCache(t)
        \/ UpdateConfigStart(t)
        \/ UpdateConfigSet(t)
        \/ Regenerate(t)

SpecSnapshot == InitSnapshot /\ [][NextSnapshot]_vars

HasPublicKey(m, key) ==
    /\ "AsymmetricSigningPublicKey" \in DOMAIN m
    /\ m["AsymmetricSigningPublicKey"] = PublicKeyString(key)
Quiescent == \A t \in Threads : th[t].pc = "idle"

\* C12: once ensureAsymmetricSigningKey has returned success and no
\* regenerateClientConfig call is in progress, the full and the limited
\* projection both carry the public key of the cached key.
C12_SnapshotCarriesPublicKey ==
    (Quiescent /\ \E t \in Threads : Succeeded(t, "ensureKey"))
    => \A n \in {1} :
         /\ asymmetricSigningKey[n] # Nil
         /\ HasPublicKey(clientConfig[n], Deref(asymmetricSigningKey[n]))
         /\ HasPublicKey(limitedClientConfig[n], Deref(asymmetricSigningKey[n]))

EnsureOps == {"ensureCookie", "ensureKey"}
NameOf(op) ==
    IF op = "ensureCookie" THEN SystemPostActionCookieSecretKey
    ELSE SystemAsymmetricSigningKeyKey
\* The store is available: it started empty and has failed no call of a
\* goroutine for being out of reach.
Available ==
    /\ \A name \in SystemNames : StartedEmpty(name)
    /\ \A t \in Threads : ~th[t].outage
\* The places of an ensure call in program order: first read, insert, second
\* read, caching, regeneration, return.
Rank(pc) ==
    CASE pc = "generate" -> 1
      [] pc = "reread" -> 2
      [] pc = "cache" -> 3
      [] pc = "regen1" -> 4
      [] pc = "regen2" -> 5
      [] pc = "regen3" -> 6
      [] pc = "regen4" -> 7
      [] pc = "regen5" -> 8
      [] pc = "regen6" -> 9
      [] OTHER -> 10
\* What a goroutine holds at line 228 / 291 is the decoded persisted record.
HoldsPersisted(t) ==
    /\ system[NameOf(th[t].op)] # NoRecord
    /\ IF th[t].op = "ensureCookie"
       THEN th[t].secret = UnmarshalSecret(Deref(system[NameOf(th[t].op)])).ptr
       ELSE th[t].key = UnmarshalKey(Deref(system[NameOf(th[t].op)])).ptr

CachedSecret(op, n) ==
    IF op = "ensureCookie" THEN postActionCookieSecret[n] ELSE asymmetricSigningKey[n]

\* C14: an ensure call that returns an error has saved no record (neither in
\* the step it returns in nor before), and the cache of its node for that
\* secret is unset when it has returned.
C14_ErrorLeavesNothingBehind ==
    /\ [](\A t \in Threads :
            (th[t].ret.op \in EnsureOps /\ th[t].ret.val = "err")
            => CachedSecret(th[t].ret.op, th[t].node) = Nil)
    /\ [][/\ \A t \in Threads :
               (th[t].op \in EnsureOps /\ th'[t].pc = "idle" /\ th'[t].ret.val = "err")
               => ~th[t].saved /\ system' = system /\ UNCHANGED secrets
          /\ ReturnedAtOnce => system' = system /\ UNCHANGED secrets]_vars

\* C14's case: on a store that started empty a node lost the insert, its
\* second read failed too, and its call returned the error.
C14_Witness ==
    \E t \in Threads :
        /\ th[t].ret = [op |-> "ensureCookie", val |-> "err"]
        /\ StartedEmpty(SystemPostActionCookieSecretKey)
        /\ system[SystemPostActionCookieSecretKey] # NoRecord
        /\ postActionCookieSecret[th[t].node] = Nil

\* C15: a record that exists under a secret's name is never changed; a cached
\* secret of a node is never changed; and a call that finds the cache set
\* returns at its first line: a goroutine is inside the body of an ensure
\* function, where the store is read and written, only while the cache of its
\* node is unset.
C15_SecretIsImmutable ==
    /\ [][/\ \A name \in SystemNames :
               system[name] # NoRecord => system'[name] = system[name]
          /\ \A n \in Nodes :
               /\ postActionCookieSecret[n] # Nil
                    => postActionCookieSecret'[n] = postActionCookieSecret[n]
               /\ asymmetricSigningKey[n] # Nil
                    => asymmetricSigningKey'[n] = asymmetricSigningKey[n]
          /\ \A t \in Threads :
               (th[t].pc = "idle" /\ th'[t].op \in EnsureOps)
               => CachedSecret(th'[t].op, th[t].node) = Nil]_vars
    /\ [](\A t \in Threads :
            (th[t].op \in EnsureOps /\ th[t].pc \in {"generate", "reread", "cache"})
            => CachedSecret(th[t].op, th[t].node) = Nil)

\* C15's case: the first node has made two calls, its cookie secret is cached
\* and persisted, and its last call of ensurePostActionCookieSecret returned
\* success with no store call failing.
C15_Witness ==
    /\ calls = 2
    /\ th[2] = Idle(2)
    /\ postActionCookieSecret[1] # Nil
    /\ system[SystemPostActionCookieSecretKey] # NoRecord
    /\ asymmetricSigningKey[1] = Nil
    /\ Succeeded(1, "ensureCookie") /\ ~th[1].outage

\* The full projection regenerateClientConfig makes of the node's current
\* document and key.
CurrentClientConfig(n) ==
    LET cc == GenerateClientConfig(config[n])
    IN WithPublicKey(WithTermsOfService(cc, cc["EnableCustomTermsOfService"] = "true",
                                        termsOfService),
                     AsymmetricSigningKey(n))

\* C16: once every regenerateClientConfig call that was started has
\* completed, the stored hash is the digest of the stored full projection and
\* that projection is the one of the current document and key.
C16_ConsistentAfterRegenerations ==
    Quiescent =>
        \A n \in {1} :
            /\ clientConfigHash[n] = Md5Hex(MarshalMap(clientConfig[n]))
            /\ clientConfig[n] = CurrentClientConfig(n)

\* C17: the full and the limited projection that one regenerateClientConfig
\* call has built (lines 369-370) are projections of one document.
C17_ProjectionsOfOneDocument ==
    \A t \in Threads :
        th[t].pc = "regen3" =>
            \E doc \in Docs :
                /\ Deref(th[t].clientConfig) = GenerateClientConfig(doc)
                /\ Deref(th[t].limitedClientConfig) = GenerateLimitedClientConfig(doc)

\* The settings two documents differ in.
SettingsChanged(old, new) == {f \in Fields : new[f] # old[f]}

\* C18: no update is lost: the document an UpdateConfig call installs differs
\* from the document active just before in no more than the one setting its
\* mutator writes, so a change another call installed meanwhile is kept.
C18_NoLostUpdate ==
    [][\A t \in Threads :
         (th[t].op = "UpdateConfig" /\ th[t].pc = "set" /\ th'[t].pc = InvokeConfigListeners)
         => Cardinality(SettingsChanged(config[th[t].node], config'[th[t].node])) <= 1]_vars

\* ------------------------- ensureInstallationDate, ensureFirstServerRunTimestamp
SystemInstallationDateKey == "InstallationDate"
SystemFirstServerRunTimestampKey == "FirstServerRunTimestamp"
DateNames == {SystemInstallationDateKey, SystemFirstServerRunTimestampKey}

\* strconv.FormatInt(i, 10) and strconv.ParseInt(text, 10, 64): a decimal text
\* is modelled by the number it spells; any other text does not parse.
FormatInt(i) == [text |-> "decimal", digits |-> i]
ParseInt(value) ==
    IF value.text = "decimal" THEN [err |-> FALSE, int |-> value.digits]
    ELSE [err |-> TRUE, int |-> 0]

\* Server.getSystemInstallDate / getFirstServerRunTimestamp: the number stored
\* under the name, or an error when there is no record or it does not parse.
GetSystemDate(sys, name) ==
    LET r == GetByName(sys, name, TRUE)
    IN IF r.err THEN [err |-> TRUE, int |-> 0] ELSE ParseInt(r.value)

\* Store.System().SaveOrUpdate(system): insert, or overwrite the record of
\* that name; fails only when the store cannot be reached.
SaveOrUpdate(sys, name, value, up) ==
    IF up THEN [err |-> FALSE, sys |-> [sys EXCEPT ![name] = Some(value)]]
    ELSE [err |-> TRUE, sys |-> sys]

\* Lines 316-322: the inferred date when there is one, else the clock.
InstallationDate(installDate, now) == IF installDate > 0 THEN installDate ELSE now

\* Lines 311-314: return when a date is stored.
EnsureInstallationDateStart(t) ==
    /\ MayCall(t)
    /\ calls' = calls + 1
    /\ th' = [th EXCEPT ![t] =
                IF GetSystemDate(system, SystemInstallationDateKey).err
                THEN Call(t, "ensureInstallationDate", "saveOrUpdate")
                ELSE Return(t, "ensureInstallationDate", "nil")]
    /\ UNCHANGED <<system, secrets, store, snapshot, metricsRunning, fixed>>

\* Lines 316-330: the date to store, then SaveOrUpdate.
EnsureInstallationDateSave(t) ==
    /\ th[t].op = "ensureInstallationDate" /\ th[t].pc = "saveOrUpdate"
    /\ \E now \in 1..MaxTime, up \in BOOLEAN :
         LET installationDate == InstallationDate(inferredInstallDate, now)
             s == SaveOrUpdate(system, SystemInstallationDateKey,
                               FormatInt(installationDate), up)
         IN /\ system' = s.sys
            /\ th' = [th EXCEPT ![t] =
                        [Return(t, "ensureInstallationDate", IF s.err THEN "err" ELSE "nil")
                         EXCEPT !.outage = ~up]]
    /\ UNCHANGED <<secrets, store, snapshot, metricsRunning, fixed, calls>>

\* Lines 334-337.
EnsureFirstServerRunTimestampStart(t) ==
    /\ MayCall(t)
    /\ calls' = calls + 1
    /\ th' = [th EXCEPT ![t] =
                IF GetSystemDate(system, SystemFirstServerRunTimestampKey).err
                THEN Call(t, "ensureFirstServerRunTimestamp", "saveOrUpdate")
                ELSE Return(t, "ensureFirstServerRunTimestamp", "nil")]
    /\ UNCHANGED <<system, secrets, store, snapshot, metricsRunning, fixed>>

\* Lines 339-345.
EnsureFirstServerRunTimestampSave(t) ==
    /\ th[t].op = "ensureFirstServerRunTimestamp" /\ th[t].pc = "saveOrUpdate"
    /\ \E now \in 1..MaxTime, up \in BOOLEAN :
         LET s == SaveOrUpdate(system, SystemFirstServerRunTimestampKey, FormatInt(now), up)
         IN /\ system' = s.sys
            /\ th' = [th EXCEPT ![t] =
                        [Return(t, "ensureFirstServerRunTimestamp",
                                IF s.err THEN "err" ELSE "nil")
                         EXCEPT !.outage = ~up]]
    /\ UNCHANGED <<secrets, store, snapshot, metricsRunning, fixed, calls>>

\* SpecDates: one goroutine per node, all nodes on one system store that holds
\* no date, or a date stored earlier, under each of the two names.
InitDates ==
    /\ system \in [SystemNames \cup DateNames -> {NoRecord, Some(FormatInt(1))}]
    /\ \A name \in SystemNames : system[name] = NoRecord
    /\ systemAtStart = system
    /\ readOnly = FALSE /\ startMetrics = FALSE /\ clusterConfigured = FALSE
    /\ environment = NoEnvironment
    /\ termsOfService = Nil
    /\ inferredInstallDate \in 0..1
    /\ export = NoExport
    /\ InitNode
    /\ calls = 0
    /\ th = [t \in Threads |-> Idle(t)]

NextDates ==
    \E t \in Threads :
        \/ EnsureInstallationDateStart(t)
        \/ EnsureInstallationDateSave(t)
        \/ EnsureFirstServerRunTimestampStart(t)
        \/ EnsureFirstServerRunTimestampSave(t)

SpecDates == InitDates /\ [][NextDates]_vars

\* C19: a date stored under either name is never overwritten.
C19_DatesAreWriteOnce ==
    [][\A name \in DateNames :
         system[name] # NoRecord => system'[name] = system[name]]_vars

\* ---------------------------------------------------------- ReloadConfig
\* config.Store.Load(): read the document from its origin again and make it,
\* with the environment applied, the active one; fails when the origin cannot
\* be read or the document it holds is invalid.
StoreLoad(cfg, cfgNoEnv, env, readable, fileCfg) ==
    IF ~readable \/ ~IsValid(fileCfg)
    THEN [err |-> "LoadErr", config |-> cfg, configNoEnv |-> cfgNoEnv]
    ELSE [err |-> "nil", config |-> ApplyEnvironment(fileCfg, env), configNoEnv |-> fileCfg]

\* What ReloadConfig returns of Load's error: nothing.
ReloadErrorSwallowed(err) == "nil"
\* Lines 98-101: Load's error is returned as it is.
ReloadError(err) == err

\* Lines 97-102: Store.Load(); its listeners regenerate the client
\* configuration, and ReloadConfig returns.
ReloadConfigLoad(t) ==
    /\ MayCall(t)
    /\ calls' = calls + 1
    /\ \E fileCfg \in Docs, readable \in BOOLEAN :
         LET n == th[t].node
             r == StoreLoad(config[n], configNoEnv[n], environment, readable, fileCfg)
         IN IF r.err # "nil"
            THEN /\ th' = [th EXCEPT ![t] = Return(t, "ReloadConfig", ReloadError(r.err))]
                 /\ UNCHANGED store
            ELSE /\ config' = [config EXCEPT ![n] = r.config]
                 /\ configNoEnv' = [configNoEnv EXCEPT ![n] = r.configNoEnv]
                 /\ th' = [th EXCEPT ![t] = Call(t, "ReloadConfig", InvokeConfigListeners)]
    /\ UNCHANGED <<system, secrets, snapshot, metricsRunning, fixed>>

\* SpecReload: two goroutines of one node with a cluster configured, calling
\* ReloadConfig and SaveConfig.
InitReload ==
    /\ system = [name \in SystemNames |-> NoRecord]
    /\ systemAtStart = system
    /\ readOnly = FALSE /\ startMetrics \in BOOLEAN /\ clusterConfigured = TRUE
    /\ environment \in Environments
    /\ termsOfService = Some("tos")
    /\ inferredInstallDate = 0
    /\ export = NoExport
    /\ InitNode
    /\ calls = 0
    /\ th = [t \in Threads |-> Idle(1)]

NextReload ==
    \E t \in Goroutines :
        \/ ReloadConfigLoad(t)
        \/ SaveConfigSet(t)
        \/ SaveConfigMetrics(t)
        \/ SaveConfigMetricsApply(t)
        \/ SaveConfigCluster(t)
        \/ SaveConfigNotified(t)
        \/ Regenerate(t)

SpecReload == InitReload /\ [][NextReload]_vars

\* C20: a goroutine inside ReloadConfig is only ever in the listeners of
\* Store.Load and hands nothing to the cluster; a successful Load makes a
\* valid document, the environment applied, the active one; and a
\* ReloadConfig that returns without having installed a document returns
\* Load's error and leaves the store as it is.
C20_ReloadWithoutClusterNotification ==
    /\ [](\A t \in Threads :
            th[t].op = "ReloadConfig" =>
                /\ th[t].pc \in {"regen1", "regen2", "regen3", "regen4", "regen5", "regen6"}
                /\ th[t].msg = Nil)
    /\ [][\A t \in Threads :
            /\ (th[t].pc = "idle" /\ th'[t].op = "ReloadConfig")
                 => /\ IsValid(config'[th[t].node])
                    /\ config'[th[t].node] =
                         ApplyEnvironment(configNoEnv'[th[t].node], environment)
            /\ (th[t].pc = "idle" /\ th'[t].pc = "idle" /\ th'[t] # th[t]
                  /\ th'[t].ret.op = "ReloadConfig")
                 => th'[t].ret.val = "LoadErr" /\ UNCHANGED store
            /\ (th[t].op = "ReloadConfig" /\ th'[t].pc = "idle")
                 => th'[t].ret.val = "nil" /\ th[t].pc = "regen6"]_vars

\* C20's case: with a cluster configured a ReloadConfig installed a changed
\* document and returned, no other goroutine having run.
C20_Witness ==
    /\ clusterConfigured
    /\ \E t \in Threads :
         /\ Succeeded(t, "ReloadConfig")
         /\ OthersNeverRan(t)
         /\ config[th[t].node] # StartConfig
====
